---- MODULE Spec2Model ----
(***************************************************************************)
(* SimplyHired job scraper: the three crawler variants of the repository   *)
(*   "main"  src/src/main.js        HTML-only listing extraction           *)
(*   "json"  src/unnamed/part_000   embedded JSON first, HTML fallback     *)
(*   "api"   src/unnamed/part_001   __NEXT_DATA__, Next.js data API, HTML  *)
(* modelled as one state machine.  A request handler is an async function: *)
(* the code between two awaits runs atomically (one JavaScript thread), so *)
(* every action below is "an awaited operation completes and the handler   *)
(* runs on to its next await".  Up to NumWorkers handlers are in flight.   *)
(* The site is free to answer a fetch with any page of the sets below.     *)
(* Dataset.pushData and enqueueLinks are taken to resolve; the handler     *)
(* timeout (requestHandlerTimeoutSecs) is not modelled.  Text is           *)
(* abstracted to "which source carries the field".                         *)
(***************************************************************************)
EXTENDS Integers, Sequences, FiniteSets, TLC

(* ------------------------------ bounds --------------------------------- *)
\* largest results_wanted (maxJobs) a run is configured with
MaxTarget == 2
\* largest maxPagesPerList a run is configured with
MaxPageCeil == 2
\* number of start URLs (one listing chain per search)
NumSeeds == 2
\* listing pages the site has for one search
SitePages == 2
\* job cards on one listing page
JobsPerPage == 2
\* handlers the autoscaled pool runs at once (maxConcurrency)
NumWorkers == 2
\* blocked / short / failed responses the site gives in one run
MaxFaults == 2
\* the same for a run against a site that blocks one search throughout
BlockedFaults == 14
\* maxPagesPerList of a run that is near its request cap (the default, 20)
CapPages == 20
\* runs of the extraction cascade compared on one payload
RunsCompared == 2
\* largest input.maxConcurrency a run is configured with
MaxConcurrencyInput == 32

Variants == {"main", "json", "api"}
Seeds == 1..NumSeeds

VARIABLES
    variant,            \* which of the three programs runs
    maxJobs,            \* crawler.maxJobs
    maxPages,           \* crawler.maxPagesPerList
    pagesProcessed,     \* let pagesProcessed
    jobsProcessed,      \* let jobsProcessed   (main.js only)
    enqueuedDetails,    \* let enqueuedDetails (part_000, part_001)
    savedJobs,          \* let savedJobs
    crawlerTerminated,  \* let crawlerTerminated (main.js only)
    buildId,            \* let buildId (part_001 only): TRUE once extracted
    pending,            \* request queue: requests waiting for a worker
    seenKeys,           \* request queue: every uniqueKey ever added
    handledCount,       \* requests finished or failed (maxRequestsPerCrawl)
    running,            \* handlers in flight, each at an await
    dataset,            \* Dataset: per detail URL, the records pushed
    failedRequests,     \* URLs whose request failed (failedRequestHandler ran)
    faults,             \* bad responses the site may still give
    runState,           \* "running", then how the run ended
    shortfall,          \* the "Target not reached" warning has been logged
    gw,                 \* one request followed through its fetches
    job,                \* record assembly: what one job's sources carry
    record,             \* record assembly: the record built from job
    nav,                \* pagination: one next listing URL being composed
    casc,               \* extraction: one payload and the cascade's results on it
    conc                \* crawler options: the concurrency input and limits

vars == <<variant, maxJobs, maxPages, pagesProcessed, jobsProcessed,
          enqueuedDetails, savedJobs, crawlerTerminated, buildId, pending,
          seenKeys, handledCount, running, failedRequests, dataset, faults,
          runState, shortfall, gw, job, record, nav, casc, conc>>

counters == <<pagesProcessed, jobsProcessed, enqueuedDetails, savedJobs,
              crawlerTerminated, buildId>>
config == <<variant, maxJobs, maxPages>>
queue == <<pending, seenKeys, handledCount, running, failedRequests>>
assembled == <<job, record>>
gateway == <<gw>>
runEnd == <<runState, shortfall>>
units == <<nav, casc, conc>>

(* ------------------------------ helpers -------------------------------- *)
Min(a, b) == IF a <= b THEN a ELSE b
Max(a, b) == IF a >= b THEN a ELSE b

\* isBlockedStatus with 503 taken as a blocked status too
isBlockedStatusWith503(code) == code = 403 \/ code = 429 \/ code = 503

\* const isBlockedStatus = (code) => code === 403 || code === 429;
isBlockedStatus(code) == code = 403 \/ code = 429

\* URLs.  A listing URL is a search q and its page p (p > 1: the URL carries
\* the cursor of page p); a detail URL is job j of that page.
ListUrl(q, p) == [q |-> q, p |-> p, j |-> 0]
JobUrl(q, p, j) == [q |-> q, p |-> p, j |-> j]
ListUrls == {ListUrl(q, p) : q \in Seeds, p \in 1..SitePages}
JobUrls == {JobUrl(q, p, j) : q \in Seeds, p \in 1..SitePages, j \in 1..JobsPerPage}

\* maxRequestRetries of the CheerioCrawler options
maxRequestRetries == CASE variant = "main" -> 4
                       [] variant = "json" -> 6
                       [] variant = "api" -> 5

\* maxRequestsPerCrawl: Math.min(maxJobs * 10, 5000)
maxRequestsPerCrawl == Min(maxJobs * 10, 5000)

\* A request of the queue
Request(label, url) == [label |-> label, url |-> url, retryCount |-> 0]

\* enqueueLinks / crawler.run: the queue drops a request whose uniqueKey (the
\* URL) it has already seen.
Fresh(reqs) == {x \in reqs : x.url \notin seenKeys}

\* A handler in flight: the request, the await it is at, and its locals.
\*   capacity     const capacity / remainingCapacity
\*   found, n     jobs.length; the number of jobs it enqueues
\*   src          the strategy its jobs came from
\*   next         the page its next listing URL leads to (0: no next URL)
\*   nextSrc      where that URL came from: "cursor" or "html"
\*   i            the loop index of main.js
\*   ndHit, htmlHit
\*                the embedded JSON / the HTML selectors found at least
\*                one job on its page
\*   html, htmlNext
\*                what the HTML strategy gives, kept over the API await while
\*                the fallback can still run (no job from __NEXT_DATA__)
\*   path         the record it pushes: "detail" or "fallback"
Handler(req, pc) ==
    [req |-> req, pc |-> pc, capacity |-> 0, found |-> 0, n |-> 0,
     src |-> "none", next |-> 0, nextSrc |-> "none", i |-> 0,
     ndHit |-> FALSE, htmlHit |-> FALSE,
     html |-> 0, htmlNext |-> 0, path |-> "none"]

\* detail tasks admitted and not yet finished: pending or in a handler
DetailInFlight ==
    Cardinality({x \in pending : x.label = "DETAIL"})
    + Cardinality({h \in running : h.req.label = "DETAIL"})

(* --------------------------- the site ---------------------------------- *)
\* What one fetch of a listing page returns.  A listing page of the site
\* shows up to JobsPerPage jobs.
\*   status, short  the HTTP status; the body is under the length threshold
\*   nd, cursor     jobs in the embedded JSON; the cursor it names (0: none;
\*                  k: the cursor of page k)
\*   build          the embedded JSON carries a buildId
\*   html, htmlNext job cards the HTML selectors find; a "next" anchor
Blank == [status |-> 200, short |-> FALSE, nd |-> 0, cursor |-> 0,
          build |-> FALSE, html |-> 0, htmlNext |-> FALSE]
Found == 0..JobsPerPage
\* a status the handlers do not take as blocked, with a page that lists jobs
Busy == [Blank EXCEPT !.status = 503, !.nd = JobsPerPage, !.html = JobsPerPage]
GoodListPages ==
    CASE variant = "main" ->
           {[Blank EXCEPT !.html = a, !.htmlNext = b] :
                a \in Found, b \in BOOLEAN}
      [] variant = "json" ->
           [status : {200}, short : {FALSE}, nd : Found,
            cursor : 0..SitePages, build : {FALSE}, html : Found,
            htmlNext : BOOLEAN] \cup {Busy}
      [] variant = "api" ->
           [status : {200}, short : {FALSE}, nd : Found,
            cursor : {0, 2} \cap (0..SitePages), build : BOOLEAN,
            html : Found, htmlNext : BOOLEAN] \cup {Busy}
\* pages the handlers take as bad: main.js tests the body length only;
\* part_000 / part_001 test response.statusCode for 403 / 429 and the length
BadListPages ==
    IF variant = "main"
    THEN {[Blank EXCEPT !.short = TRUE]}
    ELSE {[Blank EXCEPT !.status = s] : s \in {403, 429}}
         \cup {[Blank EXCEPT !.short = TRUE, !.status = s] : s \in {200, 503}}
ListPages == GoodListPages \cup BadListPages
\* gotScraping of fetchWithGot may also time out (status 0: it throws)
TimedOut == [Blank EXCEPT !.status = 0, !.short = TRUE]

\* What the Next.js data API returns.  keys: the page numbers its
\* pageCursors map is keyed by (pageCursors[k] is the cursor of page k).
ApiResults == [status : {200}, jobs : Found, keys : {{}, 2..SitePages}]
              \cup {[status |-> 403, jobs |-> 0, keys |-> {}]}

\* What one fetch of a detail page returns.  blockTitle: the <title> says
\* "access denied", "blocked" or "captcha" (read by main.js only).
DetailPages ==
    IF variant = "main"
    THEN [status : {200}, short : {FALSE}, blockTitle : BOOLEAN]
    ELSE [status : {200, 403, 429, 503}, short : BOOLEAN, blockTitle : {FALSE}]

IsFault(page) ==
    \/ page.short
    \/ isBlockedStatus(page.status)
    \/ page.status = 0
    \/ ("blockTitle" \in DOMAIN page /\ page.blockTitle)

\* the site spends one of its bad responses
Spend(page) ==
    IF IsFault(page) THEN faults > 0 /\ faults' = faults - 1
    ELSE UNCHANGED faults

(* --------------------------- record assembly --------------------------- *)
\* The fields a record merges from several sources.  A source carries a
\* field (a non-empty string) or not (undefined or ''); the value a record
\* gets is named after its source: "ld", "html", "meta", or it is a sentinel,
\* "N/A" or "".
MergeFields == {"title", "company", "location", "salary", "job_type", "date_posted"}
\* extractJobFromLdJson: the fields read from the JobPosting markup
LdFields == {"title", "company", "location", "salary", "date_posted"}
\* the detail page's selectors: every merge field has one
HtmlFields == MergeFields
\* the fields of a listing job (userData.jobMeta): main.js line 182,
\* part_000 normalize / extractJobsFromHtml, part_001 extractFromNextData
MetaFields ==
    IF variant = "api" THEN MergeFields
    ELSE {"title", "company", "location", "salary"}

\* no job is being assembled (the crawl does not track record contents)
NoJob == [ok |-> FALSE, ld |-> {}, html |-> {}, meta |-> {}]
NoRecord == <<>>

\* ok: the detail page was fetched; else there is no detail data
Jobs ==
    [ok : {TRUE}, ld : SUBSET LdFields, html : SUBSET HtmlFields,
     meta : SUBSET MetaFields]
    \cup [ok : {FALSE}, ld : {{}}, html : {{}}, meta : SUBSET MetaFields]

\* the value of field f in a source that carries the fields S
Val(S, f, token) == IF f \in S THEN token ELSE ""
\* a || b
Or(a, b) == IF a # "" THEN a ELSE b

\* the fields of a record that are not merged: the description fields (the
\* page and the listing are taken to carry no description), the lists of
\* benefits and qualifications (taken empty), url, source and scraped_at
FixedMain ==
    [f \in {"description_text", "description_html", "benefits",
            "qualifications", "url", "source", "scraped_at"} |->
        CASE f = "url" -> "url"
          [] f = "source" -> "SimplyHired"
          [] f = "scraped_at" -> "now"
          [] OTHER -> ""]
FixedJson == [FixedMain EXCEPT !["description_text"] = "N/A"]
FixedFallback ==
    [f \in {"description_text", "description_html", "url", "source",
            "scraped_at"} |-> FixedJson[f]]

\* the record of the merged fields m and the fixed fields x
Rec(m, x) ==
    [f \in DOMAIN m \cup DOMAIN x |-> IF f \in DOMAIN m THEN m[f] ELSE x[f]]

\* main.js lines 369-520: jobData
MainJobData(j) ==
    LET meta(f) == Val(j.meta, f, "meta")
        html(f) == Val(j.html, f, "html")
        m == [f \in MergeFields |->
                 CASE f \in {"title", "company", "location"} ->
                          Or(Or(meta(f), html(f)), "N/A")
                   [] OTHER -> Or(html(f), "N/A")]
    IN  Rec(m, FixedMain)

\* part_000 lines 383-420: jobData
JsonJobData(j) ==
    LET ld(f) == Val(j.ld, f, "ld")
        meta(f) == Val(j.meta, f, "meta")
        html(f) == Val(j.html, f, "html")
        first(f) == Or(ld(f), Or(html(f), meta(f)))
        m == [f \in MergeFields |->
                 CASE f \in {"title", "company", "location"} ->
                          Or(Or(first(f), Or(meta(f), "N/A")), "N/A")
                   [] f = "salary" ->
                          Or(Or(first(f), Or(meta(f), "")), "N/A")
                   [] f = "job_type" -> Or(html(f), "N/A")
                   [] f = "date_posted" -> Or(Or(ld(f), html(f)), "N/A")]
    IN  Rec(m, FixedJson)

\* part_001 lines 520-564: jobData
ApiJobData(j) ==
    LET ld(f) == Val(j.ld, f, "ld")
        meta(f) == Val(j.meta, f, "meta")
        html(f) == Val(j.html, f, "html")
        first(f) == Or(ld(f), Or(html(f), meta(f)))
        m == [f \in MergeFields |->
                 CASE f \in {"title", "company", "location"} ->
                          Or(Or(first(f), Or(meta(f), "N/A")), "N/A")
                   [] f = "salary" ->
                          Or(Or(first(f), Or(meta(f), "")), "N/A")
                   [] f = "job_type" -> Or(Or(meta(f), html(f)), "N/A")
                   [] f = "date_posted" ->
                          Or(Or(ld(f), Or(meta(f), html(f))), "N/A")]
    IN  Rec(m, FixedJson)

\* part_001 lines 575-587: the fallback record of the catch block
ApiFallback(j) ==
    LET meta(f) == Val(j.meta, f, "meta")
        m == [f \in MergeFields |->
                 CASE f \in {"title", "company", "location"} -> Or(meta(f), "N/A")
                   [] OTHER -> Or(meta(f), "")]
    IN  Rec(m, FixedFallback)

(* ---------------------- the fetch path of one request ------------------ *)
\* part_000 line 269, part_001 line 366: the backoff of a listing page before
\* the jitter, Math.min(5000, 500 * Math.pow(2, retry))
ListBackoff(retry) == Min(5000, 500 * 2^retry)
\* DetailBackoff without its cap
DetailBackoffUncapped(retry) == 700 * 2^retry
\* part_000 line 364, part_001 line 501: the same for a detail page
DetailBackoff(retry) == Min(6000, 700 * 2^retry)
\* the jitter added to it, Math.random() * 400 (detail: * 500), in whole
\* milliseconds: the smallest and the largest
Jitter(label) == IF label = "LIST" THEN {0, 399} ELSE {0, 499}

\* no response in hand
NoResponse == [status |-> 0, short |-> FALSE, blockTitle |-> FALSE]

\* The user-agent profile and the egress endpoint (proxy URL) of session s:
\* session.userData.ua and proxyInfo.url.  Sessions are numbered in the order
\* the pool creates them; two sessions are taken to differ in both.
Profile(s) == s
Egress(s) == s
\* headers of generateHeaders(): a profile of no session
Generated == 0

\* One request followed through the attempts of its handler.
\*   retry        request.retryCount
\*   pc           "fetch": the crawler is fetching the page; "sleep",
\*                "refetch": the handler is at that await; "done"
\*   resp         the response the handler was called with
\*   status, short
\*                let status / html.length under the threshold
\*   steps        what the handler has done since it was called
\*   backoff, prevBackoff
\*                the backoff before jitter of this attempt and of the
\*                attempt before (0: none computed)
\*   slept        the time it slept, jitter included
\*   session, retired
\*                the session of this attempt; session.retire() was called
\*   fetchUa, fetchProxy
\*                the profile and egress fetchWithGot was called with
\*   outcome      "retry" (the handler threw, the request is retried),
\*                "failed" (it threw with no retry left), "ok", "skipped",
\*                "fallback" (the catch block pushed the fallback record)
\*   pushed       the record pushed to the dataset
Gateway(label) ==
    [label |-> label, retry |-> 0, pc |-> "fetch", resp |-> NoResponse,
     status |-> 0, short |-> FALSE, steps |-> <<>>, backoff |-> 0,
     prevBackoff |-> 0, slept |-> 0, session |-> 1, retired |-> FALSE,
     fetchUa |-> 0, fetchProxy |-> 0, outcome |-> "none", pushed |-> "none"]
\* no request is being followed
NoGateway == [Gateway("LIST") EXCEPT !.pc = "off"]

(* ------------------------- listing URLs -------------------------------- *)
\* The query of a listing URL: the value of each parameter ("": the URL does
\* not carry it).  buildSearchUrls sets q, l and fdb (the date_posted
\* filter); a URL reached through a cursor carries cursor.
QueryParams == {"q", "l", "fdb", "cursor"}
Keywords == {"", "dev"}
Locations == {"", "nyc"}
Freshness == {"", "7"}
\* cursor tokens of the site
Cursors == {"c2", "c3"}
SearchUrls ==
    {[k \in QueryParams |->
         CASE k = "q" -> q [] k = "l" -> l [] k = "fdb" -> f [] k = "cursor" -> c] :
     q \in Keywords, l \in Locations, f \in Freshness, c \in {""} \cup Cursors}

\* part_000 lines 133-137: const url = new URL(currentUrl);
\* url.searchParams.set('cursor', nextCursor)
JsonNextUrl(currentUrl, nextCursor) == [currentUrl EXCEPT !["cursor"] = nextCursor]

\* part_001 lines 390-392 and 464-469: a new /search URL with the q and l of
\* request.url (when they are not empty) and the cursor
ApiNextUrl(currentUrl, nextCursor) ==
    [k \in QueryParams |->
        CASE k = "q" -> currentUrl["q"]
          [] k = "l" -> currentUrl["l"]
          [] k = "cursor" -> nextCursor
          [] OTHER -> ""]

\* no next URL (nextUrl = null)
NoUrl == [k \in QueryParams |-> ""]
\* The composition of one next listing URL: the URL of the request, the
\* cursor token the winning strategy carried, the URL composed
NoNav == [current |-> NoUrl, token |-> "", next |-> NoUrl]

\* One payload given to the extraction cascade: the page, the page number p
\* of its URL, what the data API answers for it, and the result of each run
\* of the cascade on it.  No payload is being followed:
NoApi == [status |-> 403, jobs |-> 0, keys |-> {}]
NoCasc == [page |-> Blank, p |-> 0, api |-> NoApi, runs |-> <<>>]

\* nothing is followed apart from the crawl
\* The concurrency options of the crawler: input.maxConcurrency (NoInput:
\* the input has none), and maxConcurrency / minConcurrency once the crawler
\* is created.  No crawler options are followed:
NoInput == 0
NoConc == [input |-> NoInput, created |-> FALSE, maxConcurrency |-> 0,
           minConcurrency |-> 0]

UnitsIdle == nav = NoNav /\ casc = NoCasc /\ conc = NoConc

(* ------------------------------ Init ----------------------------------- *)
Init ==
    /\ variant \in Variants
    /\ maxJobs \in 1..MaxTarget
    /\ maxPages \in 1..MaxPageCeil
    /\ pagesProcessed = 0
    /\ jobsProcessed = 0
    /\ enqueuedDetails = 0
    /\ savedJobs = 0
    /\ crawlerTerminated = FALSE
    /\ buildId = FALSE
    \* await crawler.run(startUrls)
    /\ pending = {Request("LIST", ListUrl(q, 1)) : q \in Seeds}
    /\ seenKeys = {ListUrl(q, 1) : q \in Seeds}
    /\ handledCount = 0
    /\ running = {}
    /\ dataset = [u \in JobUrls |-> <<>>]
    /\ faults = MaxFaults
    /\ failedRequests = {}
    /\ runState = "running"
    /\ shortfall = FALSE
    /\ gw = NoGateway
    /\ job = NoJob
    /\ record = NoRecord
    /\ UnitsIdle

(* ------------------------ the crawler framework ------------------------ *)
\* CanStart of a pool that does not test maxRequestsPerCrawl
CanStartUncapped(r, label) ==
    /\ r \in pending
    /\ r.label = label
    /\ Cardinality(running) < NumWorkers

\* The pool starts a request only while a worker is free and fewer than
\* maxRequestsPerCrawl requests have been handled.  The handler of a request
\* that starts is Handler(r, "start"); it is not yet in running.
CanStart(r, label) ==
    /\ r \in pending
    /\ r.label = label
    /\ Cardinality(running) < NumWorkers
    /\ handledCount < maxRequestsPerCrawl

\* handler h returns; reqs are the requests its last enqueueLinks added
Return(h, reqs) ==
    /\ running' = running \ {h}
    /\ handledCount' = handledCount + 1
    /\ pending' = (pending \ {h.req}) \cup Fresh(reqs)
    /\ seenKeys' = seenKeys \cup {x.url : x \in reqs}
    /\ UNCHANGED failedRequests

\* handler h throws: the request is reclaimed with retryCount + 1 until
\* maxRequestRetries, then it has failed (failedRequestHandler)
Throw(h) ==
    /\ running' = running \ {h}
    /\ UNCHANGED seenKeys
    /\ IF h.req.retryCount < maxRequestRetries
       THEN /\ pending' = (pending \ {h.req})
                             \cup {[h.req EXCEPT !.retryCount = @ + 1]}
            /\ UNCHANGED <<handledCount, failedRequests>>
       ELSE /\ pending' = pending \ {h.req}
            /\ handledCount' = handledCount + 1
            /\ failedRequests' = failedRequests \cup {h.req.url}

\* handler h goes on to its next await as h2, having enqueued reqs
Await(h, h2, reqs) ==
    /\ running' = (running \ {h}) \cup {h2}
    /\ pending' = (pending \ {h.req}) \cup Fresh(reqs)
    /\ seenKeys' = seenKeys \cup {x.url : x \in reqs}
    /\ UNCHANGED <<handledCount, failedRequests>>

\* the detail requests of the first n jobs of the page of handler h
DetailRequests(h, n) ==
    {Request("DETAIL", JobUrl(h.req.url.q, h.req.url.p, j)) : j \in 1..n}

\* the request of the next listing page of handler h
NextRequest(h) ==
    {Request("LIST", ListUrl(h.req.url.q, h.next))}


(* --------------------- listing extraction strategies ------------------- *)
\* HTML strategy (main.js: h2 > a[href*="/job/"] and a[href*="cursor="];
\* part_000 / part_001: extractJobsFromHtml).  next: the page the "next"
\* anchor leads to, 0 when there is none.
extractJobsFromHtml(page, p) ==
    [jobs |-> page.html,
     next |-> IF page.htmlNext /\ p < SitePages THEN p + 1 ELSE 0]

\* nothing extracted yet
NoJobs == [found |-> 0, src |-> "none", next |-> 0, nextSrc |-> "none",
           ndHit |-> FALSE, htmlHit |-> FALSE]

\* the locals of handler h after an extraction that gave res
WithJobs(h, res) ==
    [h EXCEPT !.found = res.found, !.src = res.src, !.next = res.next,
              !.nextSrc = res.nextSrc, !.ndHit = res.ndHit,
              !.htmlHit = res.htmlHit, !.html = 0, !.htmlNext = 0]

(* ------------------- src/src/main.js: the LIST handler ----------------- *)
\* lines 81-191 and 227-246: the one strategy of main.js
MainExtract(page, p) ==
    LET r == extractJobsFromHtml(page, p)
    IN  [NoJobs EXCEPT !.found = r.jobs, !.htmlHit = r.jobs > 0,
                       !.src = IF r.jobs > 0 THEN "html" ELSE "none",
                       !.next = r.next,
                       !.nextSrc = IF r.next > 0 THEN "html" ELSE "none"]

\* lines 196-197
MainJobsToProcess(found) == Min(found, Max(0, maxJobs - savedJobs))

\* router.addDefaultHandler, from its start to the first await enqueueLinks
MainListStart(r, page) ==
    /\ variant = "main"
    /\ CanStart(r, "LIST")
    /\ Spend(page)
    /\ pagesProcessed' = pagesProcessed + 1
    /\ UNCHANGED <<jobsProcessed, enqueuedDetails, savedJobs, crawlerTerminated,
                   buildId, config, assembled, gateway, runEnd, units, dataset>>
    /\ LET h == Handler(r, "start")
           res == MainExtract(page, r.url.p)
           remainingCapacity == Max(0, maxJobs - savedJobs)
       IN  IF \/ jobsProcessed >= maxJobs \/ crawlerTerminated
              \/ pagesProcessed' > maxPages
              \/ page.short
              \/ res.found = 0
              \/ remainingCapacity <= 0 \/ crawlerTerminated
           THEN Return(h, {})
           ELSE Await(h, [WithJobs(h, res) EXCEPT !.pc = "enqueueDetail",
                             !.capacity = remainingCapacity,
                             !.n = MainJobsToProcess(res.found)], {})

\* lines 249-251
MainShouldContinue(h, jp) ==
    h.next > 0 /\ jp < maxJobs /\ pagesProcessed < maxPages

\* the loop "for (i < jobsToProcess) await enqueueLinks(detail i)": one turn,
\* and after the last turn jobsProcessed += jobsToProcess and the pagination
\* check
MainListEnqueueDetail(h) ==
    /\ variant = "main"
    /\ h \in running
    /\ h.pc = "enqueueDetail"
    /\ LET u == h.req.url
           req == Request("DETAIL", JobUrl(u.q, u.p, h.i + 1))
           jp == jobsProcessed + h.n
       IN  IF h.i + 1 < h.n
           THEN /\ Await(h, [h EXCEPT !.i = @ + 1], {req})
                /\ UNCHANGED jobsProcessed
           ELSE /\ jobsProcessed' = jp
                /\ IF MainShouldContinue(h, jp)
                   THEN Await(h, [h EXCEPT !.i = @ + 1, !.pc = "enqueueNext"], {req})
                   ELSE Return(h, {req})
    /\ UNCHANGED <<pagesProcessed, enqueuedDetails, savedJobs, crawlerTerminated,
                   buildId, config, assembled, gateway, runEnd, units, dataset, faults>>

\* await enqueueLinks({ urls: [nextUrl], label: 'LIST' })
MainListEnqueueNext(h) ==
    /\ variant = "main"
    /\ h \in running
    /\ h.pc = "enqueueNext"
    /\ Return(h, NextRequest(h))
    /\ UNCHANGED <<counters, config, assembled, gateway, runEnd, units, dataset, faults>>

(* ------------------ src/src/main.js: the DETAIL handler ---------------- *)
\* router.addHandler('DETAIL'), from its start to await Dataset.pushData
MainDetailStart(r, page) ==
    /\ variant = "main"
    /\ CanStart(r, "DETAIL")
    /\ Spend(page)
    /\ UNCHANGED <<counters, config, assembled, gateway, runEnd, units, dataset>>
    /\ LET h == Handler(r, "start")
       IN  IF savedJobs >= maxJobs \/ crawlerTerminated
           THEN Return(h, {})
           ELSE IF page.blockTitle
           THEN Throw(h)
           ELSE Await(h, [h EXCEPT !.pc = "pushData", !.path = "detail"], {})

\* Dataset.pushData resolves: savedJobs++, jobsProcessed++, target check
MainDetailPushed(h) ==
    /\ variant = "main"
    /\ h \in running
    /\ h.pc = "pushData"
    /\ dataset' = [dataset EXCEPT ![h.req.url] = Append(@, h.path)]
    /\ savedJobs' = savedJobs + 1
    /\ jobsProcessed' = jobsProcessed + 1
    /\ crawlerTerminated' = (crawlerTerminated \/ savedJobs' >= maxJobs)
    /\ Return(h, {})
    /\ UNCHANGED <<pagesProcessed, enqueuedDetails, buildId, config, assembled, gateway, runEnd, units, faults>>

(* --------------- part_000 (json): the LIST handler --------------------- *)
\* extractJobsFromJson: the jobs of the embedded JSON and, when it names a
\* cursor, the current URL with that cursor
extractJobsFromJson(page) == [jobs |-> page.nd, nextUrl |-> page.cursor]

\* lines 288-305: JSON first, HTML when JSON gave no job
JsonCascade(page, p) ==
    LET jsonResult == extractJobsFromJson(page)
        htmlResult == extractJobsFromHtml(page, p)
        jobs1 == IF jsonResult.jobs > 0 THEN jsonResult.jobs ELSE 0
        nextUrl1 == IF jsonResult.jobs > 0 THEN jsonResult.nextUrl ELSE 0
        hits == [NoJobs EXCEPT !.ndHit = jsonResult.jobs > 0,
                               !.htmlHit = htmlResult.jobs > 0]
    IN  IF jobs1 > 0
        THEN [hits EXCEPT !.found = jobs1, !.src = "json", !.next = nextUrl1,
                          !.nextSrc = IF nextUrl1 > 0 THEN "cursor" ELSE "none"]
        ELSE [hits EXCEPT !.found = htmlResult.jobs,
                          !.src = IF htmlResult.jobs > 0 THEN "html" ELSE "none",
                          !.next = IF nextUrl1 > 0 THEN nextUrl1 ELSE htmlResult.next,
                          !.nextSrc = IF nextUrl1 > 0 THEN "cursor"
                                      ELSE IF htmlResult.next > 0 THEN "html"
                                      ELSE "none"]

\* ListAdmit taking a page without jobs as an error: it throws, and the
\* crawler retries the page
ListAdmitThrows(h, res) ==
    LET limitedJobs == Min(res.found, h.capacity)
    IN  IF res.found = 0
        THEN Throw(h)
        ELSE IF limitedJobs = 0
        THEN Return(h, {})
        ELSE Await(h, [WithJobs(h, res) EXCEPT !.pc = "enqueueDetails",
                                               !.n = limitedJobs], {})

\* lines 307-333 (part_001: 431-458): no job, or no capacity left: return;
\* else await enqueueLinks of the first `capacity` detail pages
ListAdmit(h, res) ==
    LET limitedJobs == Min(res.found, h.capacity)
    IN  IF res.found = 0 \/ limitedJobs = 0
        THEN Return(h, {})
        ELSE Await(h, [WithJobs(h, res) EXCEPT !.pc = "enqueueDetails",
                                               !.n = limitedJobs], {})

\* JsonListExtract with the blocked check after the pagination: the next
\* listing page the blocked page names is enqueued before the throw
JsonListExtractPaginates(h, page) ==
    IF page.status = 0 \/ isBlockedStatus(page.status)
    THEN LET next == {Request("LIST", ListUrl(h.req.url.q, SitePages))}
         IN  /\ running' = running \ {h}
             /\ pending' = (pending \ {h.req})
                               \cup {[h.req EXCEPT !.retryCount = @ + 1]}
                               \cup Fresh(next)
             /\ seenKeys' = seenKeys \cup {x.url : x \in next}
             /\ UNCHANGED <<handledCount, failedRequests>>
    ELSE ListAdmit(h, JsonCascade(page, h.req.url.p))

\* lines 281-305: the page in hand (the response, or the refetch): the
\* blocked check, then the cascade
JsonListExtract(h, page) ==
    IF page.status = 0 \/ isBlockedStatus(page.status)
    THEN Throw(h)
    ELSE ListAdmit(h, JsonCascade(page, h.req.url.p))

\* lines 253-279: the handler from its start: the page counter, the capacity,
\* the page ceiling, and either the backoff sleep (blocked status), the
\* refetch (short body) or the extraction
JsonListStart(r, page) ==
    /\ variant = "json"
    /\ CanStart(r, "LIST")
    /\ Spend(page)
    /\ pagesProcessed' = pagesProcessed + 1
    /\ UNCHANGED <<jobsProcessed, enqueuedDetails, savedJobs, crawlerTerminated,
                   buildId, config, assembled, gateway, runEnd, units, dataset>>
    /\ LET h == [Handler(r, "start") EXCEPT !.capacity = Max(0, maxJobs - savedJobs)]
       IN  IF pagesProcessed' > maxPages
           THEN Return(h, {})
           ELSE IF isBlockedStatus(page.status)
           THEN Await(h, [h EXCEPT !.pc = "sleep"], {})
           ELSE IF page.short
           THEN Await(h, [h EXCEPT !.pc = "refetch"], {})
           ELSE JsonListExtract(h, page)

\* await sleep(backoff) resolves: session.markBad(); session.retire(); then
\* await fetchWithGot (list and detail handler alike)
JsonSlept(h) ==
    /\ variant = "json"
    /\ h \in running
    /\ h.pc = "sleep"
    /\ Await(h, [h EXCEPT !.pc = "refetch"], {})
    /\ UNCHANGED <<counters, config, assembled, gateway, runEnd, units, dataset, faults>>

\* await fetchWithGot resolves (or throws)
JsonListRefetched(h, page) ==
    /\ variant = "json"
    /\ h \in running
    /\ h.req.label = "LIST"
    /\ h.pc = "refetch"
    /\ Spend(page)
    /\ JsonListExtract(h, page)
    /\ UNCHANGED <<counters, config, assembled, gateway, runEnd, units, dataset>>

\* line 338
\* JsonShouldContinue without the test of the page counter
JsonShouldContinueAnyPage(h) ==
    h.next > 0 /\ savedJobs < maxJobs

JsonShouldContinue(h) ==
    h.next > 0 /\ savedJobs < maxJobs /\ pagesProcessed < maxPages

\* lines 323-351: await enqueueLinks(details) resolves, enqueuedDetails +=,
\* and the pagination check
\* JsonListDetailsEnqueued with the next listing page enqueued in the same
\* enqueueLinks call as the detail pages
JsonListEnqueuedTogether(h) ==
    /\ variant = "json"
    /\ h \in running
    /\ h.pc = "enqueueDetails"
    /\ enqueuedDetails' = enqueuedDetails + h.n
    /\ IF JsonShouldContinue(h)
       THEN Await(h, [Handler(h.req, "enqueueNext") EXCEPT !.next = h.next],
                  DetailRequests(h, h.n) \cup NextRequest(h))
       ELSE Return(h, DetailRequests(h, h.n))
    /\ UNCHANGED <<pagesProcessed, jobsProcessed, savedJobs, crawlerTerminated,
                   buildId, config, assembled, gateway, runEnd, units, dataset, faults>>

JsonListDetailsEnqueued(h) ==
    /\ variant = "json"
    /\ h \in running
    /\ h.pc = "enqueueDetails"
    /\ enqueuedDetails' = enqueuedDetails + h.n
    /\ IF JsonShouldContinue(h)
       THEN Await(h, [Handler(h.req, "enqueueNext") EXCEPT !.next = h.next],
                  DetailRequests(h, h.n))
       ELSE Return(h, DetailRequests(h, h.n))
    /\ UNCHANGED <<pagesProcessed, jobsProcessed, savedJobs, crawlerTerminated,
                   buildId, config, assembled, gateway, runEnd, units, dataset, faults>>

\* await enqueueLinks(next listing page) resolves
JsonListNextEnqueued(h) ==
    /\ variant = "json"
    /\ h \in running
    /\ h.pc = "enqueueNext"
    /\ Return(h, NextRequest(h))
    /\ UNCHANGED <<counters, config, assembled, gateway, runEnd, units, dataset, faults>>

(* --------------- part_000 (json): the DETAIL handler ------------------- *)
\* lines 376-422: the page in hand, from the blocked check to await pushData
JsonDetailAssemble(h, page) ==
    IF page.status = 0 \/ isBlockedStatus(page.status)
    THEN Throw(h)
    ELSE Await(h, [h EXCEPT !.pc = "pushData", !.path = "detail"], {})

\* lines 354-374: the handler from its start
JsonDetailStart(r, page) ==
    /\ variant = "json"
    /\ CanStart(r, "DETAIL")
    /\ Spend(page)
    /\ UNCHANGED <<counters, config, assembled, gateway, runEnd, units, dataset>>
    /\ LET h == Handler(r, "start")
       IN  IF savedJobs >= maxJobs
           THEN Return(h, {})
           ELSE IF isBlockedStatus(page.status)
           THEN Await(h, [h EXCEPT !.pc = "sleep"], {})
           ELSE IF page.short
           THEN Await(h, [h EXCEPT !.pc = "refetch"], {})
           ELSE JsonDetailAssemble(h, page)

\* await fetchWithGot resolves (or throws)
JsonDetailRefetched(h, page) ==
    /\ variant = "json"
    /\ h \in running
    /\ h.req.label = "DETAIL"
    /\ h.pc = "refetch"
    /\ Spend(page)
    /\ JsonDetailAssemble(h, page)
    /\ UNCHANGED <<counters, config, assembled, gateway, runEnd, units, dataset>>

\* await Dataset.pushData resolves: savedJobs += 1
JsonDetailPushed(h) ==
    /\ variant = "json"
    /\ h \in running
    /\ h.pc = "pushData"
    /\ dataset' = [dataset EXCEPT ![h.req.url] = Append(@, h.path)]
    /\ savedJobs' = savedJobs + 1
    /\ Return(h, {})
    /\ UNCHANGED <<pagesProcessed, jobsProcessed, enqueuedDetails,
                   crawlerTerminated, buildId, config, assembled, gateway, runEnd, units, faults>>

(* --------------- part_001 (api): the LIST handler ---------------------- *)
\* extractFromNextData: the jobs of __NEXT_DATA__, pageCursors['2'] and the
\* buildId
extractFromNextData(page) ==
    [jobs |-> page.nd, nextCursor |-> page.cursor, extractedBuildId |-> page.build]

\* fetchNextJsApi, from the response on: a status >= 400 gives nothing; else
\* the jobs and the cursor keyed currentPage + 2, where currentPage is the
\* 1-based position of the current cursor among the sorted keys (0 when the
\* URL has no cursor, or when the cursor is not among them)
fetchNextJsApi(api, cursor) ==
    LET cursorKeys == api.keys
        currentPage == IF cursor > 0 /\ cursor \in cursorKeys
                       THEN Cardinality({k \in cursorKeys : k < cursor}) + 1
                       ELSE 0
        nextPage == currentPage + 2
    IN  IF api.status >= 400
        THEN [jobs |-> 0, nextCursor |-> 0]
        ELSE [jobs |-> api.jobs,
              nextCursor |-> IF nextPage \in cursorKeys THEN nextPage ELSE 0]

\* lines 401-405: jobs and nextCursor after the __NEXT_DATA__ stage
ApiNextDataStage(page) ==
    LET nextDataResult == extractFromNextData(page)
    IN  IF nextDataResult.jobs > 0
        THEN [NoJobs EXCEPT !.found = nextDataResult.jobs, !.src = "json",
                  !.ndHit = TRUE, !.next = nextDataResult.nextCursor,
                  !.nextSrc = IF nextDataResult.nextCursor > 0 THEN "cursor"
                              ELSE "none"]
        ELSE NoJobs

\* line 409: is the data API called?  bid: buildId after line 398, pp: the
\* page counter
ApiNeeded(res, bid, pp) ==
    bid /\ (res.found = 0 \/ (res.next > 0 /\ pp > 1))

\* lines 416-420: the API's jobs, when it has any, replace jobs and nextCursor
ApiStage(res, apiResult) ==
    IF apiResult.jobs > 0
    THEN [res EXCEPT !.found = apiResult.jobs, !.src = "api",
                     !.next = apiResult.nextCursor,
                     !.nextSrc = IF apiResult.nextCursor > 0 THEN "cursor"
                                 ELSE "none"]
    ELSE res

\* lines 424-429: the HTML fallback, when there is still no job
ApiHtmlStage(res, html, htmlNext) ==
    IF res.found = 0
    THEN [res EXCEPT !.found = html, !.htmlHit = html > 0,
                     !.src = IF html > 0 THEN "html" ELSE "none",
                     !.next = htmlNext,
                     !.nextSrc = IF htmlNext > 0 THEN "html" ELSE "none"]
    ELSE [res EXCEPT !.htmlHit = html > 0]

\* lines 378-458: the page in hand: the blocked check, __NEXT_DATA__ and the
\* buildId, then either await fetchNextJsApi or the rest of the cascade
ApiListExtract(h, page, pp) ==
    IF page.status = 0 \/ isBlockedStatus(page.status)
    THEN Throw(h) /\ UNCHANGED buildId
    ELSE LET bid == buildId \/ extractFromNextData(page).extractedBuildId
             res == ApiNextDataStage(page)
             htmlResult == extractJobsFromHtml(page, h.req.url.p)
         IN  /\ buildId' = bid
             /\ IF ApiNeeded(res, bid, pp)
                THEN Await(h, [WithJobs(h, res) EXCEPT !.pc = "api",
                                  !.htmlHit = htmlResult.jobs > 0,
                                  !.html = IF res.found = 0 THEN htmlResult.jobs ELSE 0,
                                  !.htmlNext = IF res.found = 0 THEN htmlResult.next ELSE 0],
                           {})
                ELSE ListAdmit(h, ApiHtmlStage(res, htmlResult.jobs, htmlResult.next))

\* lines 346-376: the handler from its start
ApiListStart(r, page) ==
    /\ variant = "api"
    /\ CanStart(r, "LIST")
    /\ Spend(page)
    /\ pagesProcessed' = pagesProcessed + 1
    /\ UNCHANGED <<jobsProcessed, enqueuedDetails, savedJobs, crawlerTerminated,
                   config, assembled, gateway, runEnd, units, dataset>>
    /\ LET h == [Handler(r, "start") EXCEPT !.capacity = Max(0, maxJobs - savedJobs)]
       IN  IF pagesProcessed + 1 > maxPages
           THEN Return(h, {}) /\ UNCHANGED buildId
           ELSE IF isBlockedStatus(page.status)
           THEN Await(h, [h EXCEPT !.pc = "sleep"], {}) /\ UNCHANGED buildId
           ELSE IF page.short
           THEN Await(h, [h EXCEPT !.pc = "refetch"], {}) /\ UNCHANGED buildId
           ELSE ApiListExtract(h, page, pagesProcessed + 1)

\* await sleep(backoff) resolves (list and detail handler alike)
ApiSlept(h) ==
    /\ variant = "api"
    /\ h \in running
    /\ h.pc = "sleep"
    /\ Await(h, [h EXCEPT !.pc = "refetch"], {})
    /\ UNCHANGED <<counters, config, assembled, gateway, runEnd, units, dataset, faults>>

\* await fetchWithGot resolves (or throws)
ApiListRefetched(h, page) ==
    /\ variant = "api"
    /\ h \in running
    /\ h.req.label = "LIST"
    /\ h.pc = "refetch"
    /\ Spend(page)
    /\ ApiListExtract(h, page, pagesProcessed)
    /\ UNCHANGED <<pagesProcessed, jobsProcessed, enqueuedDetails, savedJobs,
                   crawlerTerminated, config, assembled, gateway, runEnd, units, dataset>>

\* await fetchNextJsApi resolves: lines 416-458
ApiListApiReturned(h, api) ==
    /\ variant = "api"
    /\ h \in running
    /\ h.pc = "api"
    /\ LET currentCursor == IF h.req.url.p > 1 THEN h.req.url.p ELSE 0
           res == ApiStage(h, fetchNextJsApi(api, currentCursor))
       IN  ListAdmit(h,
                     IF res.found = 0 THEN ApiHtmlStage(res, h.html, h.htmlNext)
                     ELSE res)
    /\ UNCHANGED <<counters, config, assembled, gateway, runEnd, units, dataset, faults>>

\* line 463
ApiShouldContinue(h) ==
    savedJobs < maxJobs /\ pagesProcessed < maxPages /\ h.next > 0

\* lines 448-487: await enqueueLinks(details) resolves, enqueuedDetails +=,
\* and the pagination check
ApiListDetailsEnqueued(h) ==
    /\ variant = "api"
    /\ h \in running
    /\ h.pc = "enqueueDetails"
    /\ enqueuedDetails' = enqueuedDetails + h.n
    /\ IF ApiShouldContinue(h)
       THEN Await(h, [Handler(h.req, "enqueueNext") EXCEPT !.next = h.next],
                  DetailRequests(h, h.n))
       ELSE Return(h, DetailRequests(h, h.n))
    /\ UNCHANGED <<pagesProcessed, jobsProcessed, savedJobs, crawlerTerminated,
                   buildId, config, assembled, gateway, runEnd, units, dataset, faults>>

\* await enqueueLinks(next listing page) resolves
ApiListNextEnqueued(h) ==
    /\ variant = "api"
    /\ h \in running
    /\ h.pc = "enqueueNext"
    /\ Return(h, NextRequest(h))
    /\ UNCHANGED <<counters, config, assembled, gateway, runEnd, units, dataset, faults>>

(* --------------- part_001 (api): the DETAIL handler -------------------- *)
\* lines 513-566 and 571-588: the page in hand: a blocked status (or a failed
\* refetch) throws into the catch block, which awaits pushData(fallback);
\* else the record is assembled and pushData(jobData) awaited
ApiDetailAssemble(h, page) ==
    IF page.status = 0 \/ isBlockedStatus(page.status)
    THEN Await(h, [h EXCEPT !.pc = "pushData", !.path = "fallback"], {})
    ELSE Await(h, [h EXCEPT !.pc = "pushData", !.path = "detail"], {})

\* lines 490-511: the handler from its start
ApiDetailStart(r, page) ==
    /\ variant = "api"
    /\ CanStart(r, "DETAIL")
    /\ Spend(page)
    /\ UNCHANGED <<counters, config, assembled, gateway, runEnd, units, dataset>>
    /\ LET h == Handler(r, "start")
       IN  IF savedJobs >= maxJobs
           THEN Return(h, {})
           ELSE IF isBlockedStatus(page.status)
           THEN Await(h, [h EXCEPT !.pc = "sleep"], {})
           ELSE IF page.short
           THEN Await(h, [h EXCEPT !.pc = "refetch"], {})
           ELSE ApiDetailAssemble(h, page)

\* await fetchWithGot resolves (or throws)
ApiDetailRefetched(h, page) ==
    /\ variant = "api"
    /\ h \in running
    /\ h.req.label = "DETAIL"
    /\ h.pc = "refetch"
    /\ Spend(page)
    /\ ApiDetailAssemble(h, page)
    /\ UNCHANGED <<counters, config, assembled, gateway, runEnd, units, dataset>>

\* ApiDetailPushed with a catch block that rethrows after its fallback push
\* (as the catch block of main.js rethrows): the request is retried
ApiDetailPushedRethrows(h) ==
    /\ variant = "api"
    /\ h \in running
    /\ h.pc = "pushData"
    /\ dataset' = [dataset EXCEPT ![h.req.url] = Append(@, h.path)]
    /\ savedJobs' = savedJobs + 1
    /\ IF h.path = "fallback" THEN Throw(h) ELSE Return(h, {})
    /\ UNCHANGED <<pagesProcessed, jobsProcessed, enqueuedDetails,
                   crawlerTerminated, buildId, config, assembled, gateway, runEnd, units, faults>>

\* await Dataset.pushData resolves (jobData or fallback): savedJobs += 1
ApiDetailPushed(h) ==
    /\ variant = "api"
    /\ h \in running
    /\ h.pc = "pushData"
    /\ dataset' = [dataset EXCEPT ![h.req.url] = Append(@, h.path)]
    /\ savedJobs' = savedJobs + 1
    /\ Return(h, {})
    /\ UNCHANGED <<pagesProcessed, jobsProcessed, enqueuedDetails,
                   crawlerTerminated, buildId, config, assembled, gateway, runEnd, units, faults>>

(* ------------------------- the end of the run -------------------------- *)
\* RunFinished with a crawler.run that rejects when a request has failed:
\* the catch block of main.js 833-842 rethrows, the run ends as failed
RunFinishedRejects ==
    /\ runState = "running"
    /\ running = {}
    /\ pending = {} \/ handledCount >= maxRequestsPerCrawl
    /\ runState' = IF failedRequests # {} THEN "failed" ELSE "finished"
    /\ shortfall' = (savedJobs < maxJobs)
    /\ UNCHANGED <<config, counters, queue, dataset, faults, assembled, gateway, units>>

\* await crawler.run(startUrls) resolves: no handler is running and the queue
\* is empty or maxRequestsPerCrawl requests have been handled (requests that
\* failed do not make it reject).  Then the log lines of main.js 822-834,
\* part_000 557-560, part_001 691-694: the warning when savedJobs < maxJobs;
\* and Actor.exit().
RunFinished ==
    /\ runState = "running"
    /\ running = {}
    /\ pending = {} \/ handledCount >= maxRequestsPerCrawl
    /\ runState' = "finished"
    /\ shortfall' = (savedJobs < maxJobs)
    /\ UNCHANGED <<config, counters, queue, dataset, faults, assembled, gateway, units>>

(* ------------------ the record a DETAIL handler builds ----------------- *)
\* One job: the sources are drawn, no request is queued.
InitAssemble ==
    /\ variant \in Variants
    /\ maxJobs = 1
    /\ maxPages = 1
    /\ pagesProcessed = 0
    /\ jobsProcessed = 0
    /\ enqueuedDetails = 0
    /\ savedJobs = 0
    /\ crawlerTerminated = FALSE
    /\ buildId = FALSE
    /\ pending = {}
    /\ seenKeys = {}
    /\ handledCount = 0
    /\ running = {}
    /\ dataset = [u \in JobUrls |-> <<>>]
    /\ faults = 0
    /\ failedRequests = {}
    /\ runState = "running"
    /\ shortfall = FALSE
    /\ gw = NoGateway
    /\ job \in Jobs
    /\ record = NoRecord
    /\ UnitsIdle

\* main.js: the DETAIL handler builds jobData
MainAssemble ==
    /\ variant = "main" /\ job.ok /\ record = NoRecord
    /\ record' = MainJobData(job)
    /\ UNCHANGED <<config, counters, queue, dataset, faults, job, gateway, runEnd, units>>

\* part_000: the DETAIL handler builds jobData
JsonAssemble ==
    /\ variant = "json" /\ job.ok /\ record = NoRecord
    /\ record' = JsonJobData(job)
    /\ UNCHANGED <<config, counters, queue, dataset, faults, job, gateway, runEnd, units>>

\* part_001: the DETAIL handler builds jobData
ApiAssemble ==
    /\ variant = "api" /\ job.ok /\ record = NoRecord
    /\ record' = ApiJobData(job)
    /\ UNCHANGED <<config, counters, queue, dataset, faults, job, gateway, runEnd, units>>

\* part_001: the catch block builds the fallback record
ApiAssembleFallback ==
    /\ variant = "api" /\ ~job.ok /\ record = NoRecord
    /\ record' = ApiFallback(job)
    /\ UNCHANGED <<config, counters, queue, dataset, faults, job, gateway, runEnd, units>>

NextAssemble ==
    \/ MainAssemble
    \/ JsonAssemble
    \/ ApiAssemble
    \/ ApiAssembleFallback

SpecAssemble == InitAssemble /\ [][NextAssemble]_vars

(* ------------- one request through the fetches of its handler ---------- *)
\* What the crawler hands to the handler (response, body) and what
\* fetchWithGot returns.  main.js reads the body only.
GwResponses ==
    IF variant = "main"
    THEN [status : {200}, short : BOOLEAN, blockTitle : BOOLEAN]
    ELSE [status : {200, 403, 429, 503}, short : BOOLEAN, blockTitle : {FALSE}]
\* gotScraping may also throw (timeout, network error)
GwFailed == [NoResponse EXCEPT !.short = TRUE]

\* One request, a listing or a detail page, about to be fetched.
InitGateway ==
    /\ variant \in Variants
    /\ maxJobs = 1
    /\ maxPages = 1
    /\ pagesProcessed = 0
    /\ jobsProcessed = 0
    /\ enqueuedDetails = 0
    /\ savedJobs = 0
    /\ crawlerTerminated = FALSE
    /\ buildId = FALSE
    /\ pending = {}
    /\ seenKeys = {}
    /\ handledCount = 0
    /\ running = {}
    /\ failedRequests = {}
    /\ dataset = [u \in JobUrls |-> <<>>]
    /\ faults = 0
    /\ runState = "running"
    /\ shortfall = FALSE
    /\ gw \in {Gateway(label) : label \in {"LIST", "DETAIL"}}
    /\ job = NoJob
    /\ record = NoRecord
    /\ UnitsIdle

\* the handler of g ends without an error
GwDone(g, outcome) ==
    [g EXCEPT !.pc = "done", !.outcome = outcome,
              !.pushed = IF outcome = "ok" /\ g.label = "DETAIL" THEN "detail"
                         ELSE "none"]

\* the handler of g throws.  part_001 lines 572-590: the catch block of the
\* DETAIL handler pushes the fallback record and returns.  Else the crawler
\* retries the request until maxRequestRetries, then calls
\* failedRequestHandler, which logs.
GwThrow(g) ==
    IF variant = "api" /\ g.label = "DETAIL"
    THEN [g EXCEPT !.pc = "done", !.outcome = "fallback", !.pushed = "fallback"]
    ELSE IF g.retry < maxRequestRetries
    THEN [g EXCEPT !.pc = "fetch", !.retry = @ + 1, !.outcome = "retry"]
    ELSE [g EXCEPT !.pc = "done", !.outcome = "failed"]

\* part_000 lines 281-283 / 376-378, part_001 lines 378-380 / 513-515
GwBlockedCheck(g) ==
    IF isBlockedStatus(g.status) THEN GwThrow(g) ELSE GwDone(g, "ok")

\* main.js lines 70-74 (LIST: a short body returns) and 285-289 (DETAIL: a
\* block page throws)
GwMainHandle(g) ==
    IF g.label = "LIST"
    THEN IF g.resp.short THEN GwDone(g, "skipped") ELSE GwDone(g, "ok")
    ELSE IF g.resp.blockTitle THEN GwThrow(g) ELSE GwDone(g, "ok")

\* part_000 lines 265-275 / 361-370, part_001 lines 361-372 / 496-507: from
\* the start of the handler to its first await, or to its blocked check
GwRefetchNeeded(g) ==
    IF isBlockedStatus(g.status) \/ g.short
    THEN LET retry == g.retry
             backoff == IF g.label = "LIST" THEN ListBackoff(retry)
                        ELSE DetailBackoff(retry)
         IN  IF isBlockedStatus(g.status)
             THEN [g EXCEPT !.backoff = backoff, !.pc = "sleep"]
             ELSE [g EXCEPT !.backoff = backoff, !.pc = "refetch"]
    ELSE GwBlockedCheck(g)

\* the crawler has fetched the page with a session of the pool (a new one
\* when the last was retired) and calls the handler
GwHandle(resp) ==
    /\ gw.pc = "fetch"
    /\ LET g == [gw EXCEPT !.resp = resp, !.status = resp.status,
                           !.short = resp.short, !.steps = <<>>,
                           !.prevBackoff = gw.backoff, !.backoff = 0,
                           !.slept = 0, !.fetchUa = 0, !.fetchProxy = 0,
                           !.session = IF gw.retired THEN @ + 1 ELSE @,
                           !.retired = FALSE, !.outcome = "none"]
       IN  gw' = IF variant = "main" THEN GwMainHandle(g)
                 ELSE GwRefetchNeeded(g)
    /\ UNCHANGED <<config, counters, queue, dataset, faults, assembled, runEnd, units>>

\* await sleep(backoff) resolves; session.markBad(); session.retire(); then
\* await fetchWithGot
GwSlept(jitter) ==
    /\ gw.pc = "sleep"
    /\ gw' = [gw EXCEPT !.slept = gw.backoff + jitter,
                        !.steps = @ \o <<"sleep", "markBad", "retire">>,
                        !.retired = TRUE, !.pc = "refetch"]
    /\ UNCHANGED <<config, counters, queue, dataset, faults, assembled, runEnd, units>>

\* fetchWithGot(request.url, proxyInfo?.url, session.userData?.ua ||
\* randomUA()) of part_000, fetchWithGot(request.url, proxyInfo?.url) of
\* part_001: the profile and the egress it is called with
GwFetchWithGot(g) ==
    [g EXCEPT !.steps = @ \o <<"refetch">>,
              !.fetchUa = IF variant = "json" THEN Profile(g.session)
                          ELSE Generated,
              !.fetchProxy = Egress(g.session)]

\* await fetchWithGot resolves (or throws), then the blocked check
GwRefetched(resp) ==
    /\ gw.pc = "refetch"
    /\ LET g == GwFetchWithGot(gw)
       IN  gw' = IF resp = GwFailed THEN GwThrow(g)
                 ELSE GwBlockedCheck([g EXCEPT !.status = resp.status,
                                               !.short = resp.short])
    /\ UNCHANGED <<config, counters, queue, dataset, faults, assembled, runEnd, units>>

NextGateway ==
    \/ \E resp \in GwResponses : GwHandle(resp)
    \/ \E jitter \in Jitter(gw.label) : GwSlept(jitter)
    \/ \E resp \in GwResponses \cup {GwFailed} : GwRefetched(resp)

SpecGateway == InitGateway /\ [][NextGateway]_vars

(* ------------------------------ Next ----------------------------------- *)
Next ==
    \/ \E r \in pending, page \in ListPages : MainListStart(r, page)
    \/ \E h \in running : MainListEnqueueDetail(h)
    \/ \E h \in running : MainListEnqueueNext(h)
    \/ \E r \in pending, page \in DetailPages : MainDetailStart(r, page)
    \/ \E h \in running : MainDetailPushed(h)
    \/ \E r \in pending, page \in ListPages : JsonListStart(r, page)
    \/ \E h \in running : JsonSlept(h)
    \/ \E h \in running, page \in ListPages \cup {TimedOut} : JsonListRefetched(h, page)
    \/ \E h \in running : JsonListDetailsEnqueued(h)
    \/ \E h \in running : JsonListNextEnqueued(h)
    \/ \E r \in pending, page \in DetailPages : JsonDetailStart(r, page)
    \/ \E h \in running, page \in DetailPages \cup {TimedOut} : JsonDetailRefetched(h, page)
    \/ \E h \in running : JsonDetailPushed(h)
    \/ \E r \in pending, page \in ListPages : ApiListStart(r, page)
    \/ \E h \in running : ApiSlept(h)
    \/ \E h \in running, page \in ListPages \cup {TimedOut} : ApiListRefetched(h, page)
    \/ \E h \in running, api \in ApiResults : ApiListApiReturned(h, api)
    \/ \E h \in running : ApiListDetailsEnqueued(h)
    \/ \E h \in running : ApiListNextEnqueued(h)
    \/ \E r \in pending, page \in DetailPages : ApiDetailStart(r, page)
    \/ \E h \in running, page \in DetailPages \cup {TimedOut} : ApiDetailRefetched(h, page)
    \/ \E h \in running : ApiDetailPushed(h)
    \/ RunFinished

Spec == Init /\ [][Next]_vars

\* A run of one search against a site that may block every fetch.
InitBlocked ==
    /\ variant \in Variants
    /\ maxJobs \in 1..MaxTarget
    /\ maxPages \in 1..MaxPageCeil
    /\ pagesProcessed = 0
    /\ jobsProcessed = 0
    /\ enqueuedDetails = 0
    /\ savedJobs = 0
    /\ crawlerTerminated = FALSE
    /\ buildId = FALSE
    /\ pending = {Request("LIST", ListUrl(1, 1))}
    /\ seenKeys = {ListUrl(1, 1)}
    /\ handledCount = 0
    /\ running = {}
    /\ failedRequests = {}
    /\ dataset = [u \in JobUrls |-> <<>>]
    /\ faults = BlockedFaults
    /\ runState = "running"
    /\ shortfall = FALSE
    /\ gw = NoGateway
    /\ job = NoJob
    /\ record = NoRecord
    /\ UnitsIdle

SpecBlocked == InitBlocked /\ [][Next]_vars

\* A run of maxRequestsPerCrawl start URLs near its request cap: all but
\* NumSeeds of them have been handled, each by a listing handler whose page
\* listed no job (it counted the page and returned).
InitCap ==
    /\ variant \in Variants
    /\ maxJobs \in 1..MaxTarget
    /\ maxPages = CapPages
    /\ pagesProcessed = maxRequestsPerCrawl - NumSeeds
    /\ jobsProcessed = 0
    /\ enqueuedDetails = 0
    /\ savedJobs = 0
    /\ crawlerTerminated = FALSE
    /\ buildId = FALSE
    /\ pending = {Request("LIST", ListUrl(q, 1)) : q \in Seeds}
    /\ seenKeys = {ListUrl(q, 1) : q \in 1..maxRequestsPerCrawl}
    /\ handledCount = maxRequestsPerCrawl - NumSeeds
    /\ running = {}
    /\ failedRequests = {}
    /\ dataset = [u \in JobUrls |-> <<>>]
    /\ faults = 1
    /\ runState = "running"
    /\ shortfall = FALSE
    /\ gw = NoGateway
    /\ job = NoJob
    /\ record = NoRecord
    /\ UnitsIdle

\* A run of one search for one record from one page, against a site that
\* blocks it throughout.
InitStalled ==
    /\ variant \in Variants
    /\ maxJobs = 1
    /\ maxPages = 1
    /\ pagesProcessed = 0
    /\ jobsProcessed = 0
    /\ enqueuedDetails = 0
    /\ savedJobs = 0
    /\ crawlerTerminated = FALSE
    /\ buildId = FALSE
    /\ pending = {Request("LIST", ListUrl(1, 1))}
    /\ seenKeys = {ListUrl(1, 1)}
    /\ handledCount = 0
    /\ running = {}
    /\ failedRequests = {}
    /\ dataset = [u \in JobUrls |-> <<>>]
    /\ faults = BlockedFaults
    /\ runState = "running"
    /\ shortfall = FALSE
    /\ gw = NoGateway
    /\ job = NoJob
    /\ record = NoRecord
    /\ UnitsIdle

\* The event loop runs every continuation that is ready and the pool starts
\* a request whenever a worker is free: a step that can be taken is taken.
SpecRunFair ==
    /\ InitCap \/ InitStalled
    /\ [][Next]_vars
    /\ WF_vars(Next)

(* ----------------------- the crawler's concurrency -------------------- *)
\* input.maxConcurrency ?? dflt
OrDefault(input, dflt) == IF input = NoInput THEN dflt ELSE input

\* main.js line 703: Math.min(input.maxConcurrency ?? 15, 20); part_000 line
\* 439: Math.min(input.maxConcurrency ?? 3, 15); part_001 line 602:
\* Math.min(input.maxConcurrency ?? 5, 15)
maxConcurrencyOf(input) ==
    CASE variant = "main" -> Min(OrDefault(input, 15), 20)
      [] variant = "json" -> Min(OrDefault(input, 3), 15)
      [] variant = "api" -> Min(OrDefault(input, 5), 15)

\* main.js line 723: Math.floor(maxConcurrency / 3); part_000 line 494:
\* Math.max(2, Math.floor(maxConcurrency / 3)); part_001 line 657:
\* Math.max(1, Math.floor(maxConcurrency / 3))
minConcurrencyOf(maxConcurrency) ==
    CASE variant = "main" -> maxConcurrency \div 3
      [] variant = "json" -> Max(2, maxConcurrency \div 3)
      [] variant = "api" -> Max(1, maxConcurrency \div 3)

\* the variant's cap on maxConcurrency
HardCap == IF variant = "main" THEN 20 ELSE 15

\* The input has been read; the crawler is not yet created.
InitConcurrency ==
    /\ variant \in Variants
    /\ maxJobs = 1
    /\ maxPages = 1
    /\ pagesProcessed = 0
    /\ jobsProcessed = 0
    /\ enqueuedDetails = 0
    /\ savedJobs = 0
    /\ crawlerTerminated = FALSE
    /\ buildId = FALSE
    /\ pending = {}
    /\ seenKeys = {}
    /\ handledCount = 0
    /\ running = {}
    /\ failedRequests = {}
    /\ dataset = [u \in JobUrls |-> <<>>]
    /\ faults = 0
    /\ runState = "running"
    /\ shortfall = FALSE
    /\ gw = NoGateway
    /\ job = NoJob
    /\ record = NoRecord
    /\ nav = NoNav
    /\ casc = NoCasc
    /\ conc \in [input : {NoInput} \cup 1..MaxConcurrencyInput, created : {FALSE},
                 maxConcurrency : {0}, minConcurrency : {0}]

\* new CheerioCrawler({ maxConcurrency, minConcurrency, ... })
CreateCrawler ==
    /\ ~conc.created
    /\ LET maxConcurrency == maxConcurrencyOf(conc.input)
       IN  conc' = [conc EXCEPT !.created = TRUE,
                                !.maxConcurrency = maxConcurrency,
                                !.minConcurrency = minConcurrencyOf(maxConcurrency)]
    /\ UNCHANGED <<config, counters, queue, dataset, faults, assembled, gateway, runEnd, nav, casc>>

NextConcurrency == CreateCrawler
SpecConcurrency == InitConcurrency /\ [][NextConcurrency]_vars

(* ------------------- a run against a site that yields ------------------ *)
\* what the cascade of the variant extracts from page (part_001: before the
\* data API is asked)
CascadeOn(page, p) ==
    CASE variant = "main" -> MainExtract(page, p)
      [] variant = "json" -> JsonCascade(page, p)
      [] variant = "api" ->
           LET htmlResult == extractJobsFromHtml(page, p)
           IN  ApiHtmlStage(ApiNextDataStage(page), htmlResult.jobs, htmlResult.next)

\* listing pages served as page p that are not blocked and give the cascade
\* at least one job and, unless p is the site's last page, the locator of
\* page p + 1
YieldingListPages(p) ==
    {page \in GoodListPages :
        LET res == CascadeOn(page, p)
        IN  /\ page.status = 200
            /\ res.found > 0
            /\ p < SitePages => res.next = p + 1}
\* answers of the data API that give jobs and the cursors of all pages
YieldingApiResults ==
    {api \in ApiResults : api.status = 200 /\ api.jobs > 0 /\ api.keys = 2..SitePages}
\* detail pages that are not blocked
YieldingDetailPages ==
    {page \in DetailPages :
        page.status = 200 /\ ~page.short /\ ~page.blockTitle}

\* A run of one search with the default page ceiling against a site that
\* blocks nothing.
InitYielding ==
    /\ variant \in Variants
    /\ maxJobs \in 1..MaxTarget
    /\ maxPages = CapPages
    /\ pagesProcessed = 0
    /\ jobsProcessed = 0
    /\ enqueuedDetails = 0
    /\ savedJobs = 0
    /\ crawlerTerminated = FALSE
    /\ buildId = FALSE
    /\ pending = {Request("LIST", ListUrl(1, 1))}
    /\ seenKeys = {ListUrl(1, 1)}
    /\ handledCount = 0
    /\ running = {}
    /\ failedRequests = {}
    /\ dataset = [u \in JobUrls |-> <<>>]
    /\ faults = 0
    /\ runState = "running"
    /\ shortfall = FALSE
    /\ gw = NoGateway
    /\ job = NoJob
    /\ record = NoRecord
    /\ UnitsIdle

\* the steps of the crawl when every page fetched is a yielding one
NextYielding ==
    \/ \E r \in pending : \E page \in YieldingListPages(r.url.p) : MainListStart(r, page)
    \/ \E h \in running : MainListEnqueueDetail(h)
    \/ \E h \in running : MainListEnqueueNext(h)
    \/ \E r \in pending, page \in YieldingDetailPages : MainDetailStart(r, page)
    \/ \E h \in running : MainDetailPushed(h)
    \/ \E r \in pending : \E page \in YieldingListPages(r.url.p) : JsonListStart(r, page)
    \/ \E h \in running : JsonListDetailsEnqueued(h)
    \/ \E h \in running : JsonListNextEnqueued(h)
    \/ \E r \in pending, page \in YieldingDetailPages : JsonDetailStart(r, page)
    \/ \E h \in running : JsonDetailPushed(h)
    \/ \E r \in pending : \E page \in YieldingListPages(r.url.p) : ApiListStart(r, page)
    \/ \E h \in running, api \in YieldingApiResults : ApiListApiReturned(h, api)
    \/ \E h \in running : ApiListDetailsEnqueued(h)
    \/ \E h \in running : ApiListNextEnqueued(h)
    \/ \E r \in pending, page \in YieldingDetailPages : ApiDetailStart(r, page)
    \/ \E h \in running : ApiDetailPushed(h)
    \/ RunFinished
SpecYielding == InitYielding /\ [][NextYielding]_vars

(* --------------------- composing the next listing URL ------------------ *)
\* A listing handler of part_000 / part_001 whose winning strategy carried a
\* cursor token, at the point it composes the next URL.
InitUrl ==
    /\ variant \in {"json", "api"}
    /\ maxJobs = 1
    /\ maxPages = 1
    /\ pagesProcessed = 0
    /\ jobsProcessed = 0
    /\ enqueuedDetails = 0
    /\ savedJobs = 0
    /\ crawlerTerminated = FALSE
    /\ buildId = FALSE
    /\ pending = {}
    /\ seenKeys = {}
    /\ handledCount = 0
    /\ running = {}
    /\ failedRequests = {}
    /\ dataset = [u \in JobUrls |-> <<>>]
    /\ faults = 0
    /\ runState = "running"
    /\ shortfall = FALSE
    /\ gw = NoGateway
    /\ job = NoJob
    /\ record = NoRecord
    /\ nav \in [current : SearchUrls, token : Cursors, next : {NoUrl}]
    /\ casc = NoCasc
    /\ conc = NoConc

\* part_000 lines 131-141 (extractJobsFromJson)
JsonComposeNext ==
    /\ variant = "json" /\ nav.next = NoUrl
    /\ nav' = [nav EXCEPT !.next = JsonNextUrl(nav.current, nav.token)]
    /\ UNCHANGED <<config, counters, queue, dataset, faults, assembled, gateway, runEnd, casc, conc>>

\* part_001 lines 463-470
ApiComposeNext ==
    /\ variant = "api" /\ nav.next = NoUrl
    /\ nav' = [nav EXCEPT !.next = ApiNextUrl(nav.current, nav.token)]
    /\ UNCHANGED <<config, counters, queue, dataset, faults, assembled, gateway, runEnd, casc, conc>>

NextUrl == JsonComposeNext \/ ApiComposeNext
SpecUrl == InitUrl /\ [][NextUrl]_vars

(* ------------------- the extraction cascade on one payload ------------- *)
\* part_001 lines 395-429: the cascade on a page, where bid0 is the buildId
\* and pp the page counter of the process when it runs, and api what
\* fetchNextJsApi gets when it is called
ApiCascade(page, p, bid0, pp, api) ==
    LET bid == bid0 \/ extractFromNextData(page).extractedBuildId
        res == ApiNextDataStage(page)
        htmlResult == extractJobsFromHtml(page, p)
        currentCursor == IF p > 1 THEN p ELSE 0
        res2 == IF ApiNeeded(res, bid, pp)
                THEN ApiStage(res, fetchNextJsApi(api, currentCursor))
                ELSE res
    IN  ApiHtmlStage(res2, htmlResult.jobs, htmlResult.next)

\* what a run of the cascade returns: the jobs, the strategy they came from,
\* the next locator and whether it is a cursor or an anchor of the HTML
Extracted(res) ==
    [found |-> res.found, src |-> res.src, next |-> res.next,
     nextSrc |-> res.nextSrc]

\* A listing payload, before the cascade has run on it.
InitCascade ==
    /\ variant \in Variants
    /\ maxJobs = 1
    /\ maxPages = 1
    /\ pagesProcessed = 0
    /\ jobsProcessed = 0
    /\ enqueuedDetails = 0
    /\ savedJobs = 0
    /\ crawlerTerminated = FALSE
    /\ buildId = FALSE
    /\ pending = {}
    /\ seenKeys = {}
    /\ handledCount = 0
    /\ running = {}
    /\ failedRequests = {}
    /\ dataset = [u \in JobUrls |-> <<>>]
    /\ faults = 0
    /\ runState = "running"
    /\ shortfall = FALSE
    /\ gw = NoGateway
    /\ job = NoJob
    /\ record = NoRecord
    /\ nav = NoNav
    /\ casc \in [page : GoodListPages, p : 1..SitePages,
                 api : IF variant = "api" THEN ApiResults ELSE {NoApi},
                 runs : {<<>>}]
    /\ conc = NoConc

\* the cascade has run on the payload fewer than RunsCompared times
CanRunCascade == casc.p > 0 /\ Len(casc.runs) < RunsCompared

\* main.js lines 81-191
MainCascadeRun ==
    /\ variant = "main" /\ CanRunCascade
    /\ casc' = [casc EXCEPT !.runs = Append(@, Extracted(MainExtract(casc.page, casc.p)))]
    /\ UNCHANGED <<config, counters, queue, dataset, faults, assembled, gateway, runEnd, nav, conc>>

\* part_000 lines 291-305
JsonCascadeRun ==
    /\ variant = "json" /\ CanRunCascade
    /\ casc' = [casc EXCEPT !.runs = Append(@, Extracted(JsonCascade(casc.page, casc.p)))]
    /\ UNCHANGED <<config, counters, queue, dataset, faults, assembled, gateway, runEnd, nav, conc>>

\* part_001 lines 395-429, in a process whose buildId is bid0 and whose
\* page counter is pp
ApiCascadeRun(bid0, pp) ==
    /\ variant = "api" /\ CanRunCascade
    /\ casc' = [casc EXCEPT !.runs =
                    Append(@, Extracted(ApiCascade(casc.page, casc.p, bid0, pp, casc.api)))]
    /\ UNCHANGED <<config, counters, queue, dataset, faults, assembled, gateway, runEnd, nav, conc>>

NextCascade ==
    \/ MainCascadeRun
    \/ JsonCascadeRun
    \/ \E bid0 \in BOOLEAN, pp \in 1..MaxPageCeil : ApiCascadeRun(bid0, pp)
SpecCascade == InitCascade /\ [][NextCascade]_vars

(* ------------------------------ claims --------------------------------- *)
\* detail tasks the listing handlers have admitted: the detail URLs the
\* request queue has accepted
Admitted == {u \in seenKeys : u.j > 0}
\* detail URLs with at least one record in the dataset
Persisted == {u \in JobUrls : Len(dataset[u]) > 0}
\* handler h calls enqueueLinks in this step: it comes to await one
CallsEnqueue(h) ==
    /\ h \in running' /\ h \notin running
    /\ h.pc \in {"enqueueDetail", "enqueueDetails", "enqueueNext"}
\* handler h calls enqueueLinks for the (first) detail pages of its page
Admits(h) ==
    /\ CallsEnqueue(h)
    /\ h.pc = "enqueueDetails" \/ (h.pc = "enqueueDetail" /\ h.i = 0)

\* C1: the number of records pushed to the dataset (savedJobs) never exceeds
\* the target (maxJobs), whatever the interleaving of DETAIL handlers around
\* their await on the push.
C1_SavedWithinTarget == savedJobs <= maxJobs

\* C2: the number of detail tasks admitted over the whole run never exceeds
\* the target, also when a listing page is processed before the detail tasks
\* of an earlier page have been persisted.
C2_AdmittedWithinTarget == Cardinality(Admitted) <= maxJobs

\* C3: a listing handler admits min(n, target - persisted - in flight) detail
\* tasks for a page with n jobs, the capacity being the one at the moment the
\* tasks are enqueued.
C3_AdmitsRemainingCapacity ==
    [][\A h \in running' :
          Admits(h) =>
              h.n = Min(h.found, Max(0, maxJobs - savedJobs - DetailInFlight))]_vars

\* C4: the page counter (pagesProcessed) never exceeds the page ceiling
\* (maxPages), for any number of seeds and with re-attempted listing pages.
C4_PagesWithinCeiling == pagesProcessed <= maxPages

\* C5: once the persisted records have reached the target, no listing handler
\* calls enqueueLinks for a detail task or a listing task, not even one that
\* had read its capacity before the target was reached.
C5_NoEnqueueAfterTarget ==
    [][savedJobs >= maxJobs => \A h \in running' : ~CallsEnqueue(h)]_vars

\* C6: the persisted records are at most the admitted detail tasks: every
\* record in the dataset belongs to an admitted detail task, and a task
\* causes at most one push over all its attempts (retries and the fallback
\* push of the catch block included); savedJobs counts exactly these pushes.
C6_OnePushPerAdmittedTask ==
    /\ \A u \in JobUrls : Len(dataset[u]) <= 1
    /\ Persisted \subseteq Admitted
    /\ savedJobs = Cardinality(Persisted)
    /\ savedJobs <= Cardinality(Admitted)

\* C6 witness: a task whose handler threw into the catch block has its one
\* (fallback) record in the dataset, next to a task persisted from its page
C6_FallbackPushed ==
    /\ \E u \in JobUrls : dataset[u] = <<"fallback">>
    /\ \E u \in JobUrls : dataset[u] = <<"detail">>

\* C7: on a listing page where both the embedded JSON and the HTML selectors
\* find jobs, the handler's jobs are the embedded JSON's, and the HTML
\* strategy gives neither the jobs nor the next URL.
C7_JsonBeforeHtml ==
    \A h \in running :
        (h.pc = "enqueueDetails" /\ h.ndHit /\ h.htmlHit) =>
            (h.src = "json" /\ h.nextSrc # "html")

\* C8: once __NEXT_DATA__ has given jobs, the data API replaces neither
\* these jobs nor their cursor, on any page.
C8_NextDataNotReplaced ==
    \A h \in running :
        (variant = "api" /\ h.pc = "enqueueDetails" /\ h.ndHit) =>
            h.src # "api"

\* the value the merge order JSON-LD > HTML > listing gives field f of job j
\* (the sentinel when no source carries f)
MergeOrder(j, f, sentinel) ==
    IF f \in j.ld THEN "ld"
    ELSE IF f \in j.html THEN "html"
    ELSE IF f \in j.meta THEN "meta"
    ELSE sentinel

\* C9: every merged field of a record built from a fetched detail page is
\* the JSON-LD value if there is one, else the HTML value, else the listing
\* value (else a sentinel): the listing never wins over the detail page.
C9_DetailBeforeListing ==
    (record # NoRecord /\ job.ok) =>
        \A f \in MergeFields : record[f] = MergeOrder(job, f, record[f])

\* C10: a record built with no detail data has every field of a record
\* built from a fetched detail page, each merged field being the listing
\* value or a sentinel.
C10_FallbackHasAllFields ==
    (record # NoRecord /\ job.ld = {} /\ job.html = {}) =>
        /\ DOMAIN record = DOMAIN ApiJobData(job)
        /\ \A f \in MergeFields : record[f] \in {"meta", "N/A", ""}

\* the handler of the followed request has been called and has come to an
\* await or to its end (as long as the next attempt has not been handled,
\* resp, status and steps are those of the attempt that threw)
GwHandled ==
    \/ gw.pc \in {"sleep", "refetch", "done"}
    \/ gw.pc = "fetch" /\ gw.outcome = "retry"
\* the handler of the followed request has ended: it returned or threw
GwEnded ==
    \/ gw.pc = "done"
    \/ gw.pc = "fetch" /\ gw.outcome = "retry"
\* x is one of the steps the handler has done
Did(x) == \E k \in 1..Len(gw.steps) : gw.steps[k] = x

\* C11: a detail task whose every attempt ended blocked, until no retry was
\* left, has a record built from the listing metadata in the dataset.
C11_FailedDetailPersisted ==
    (gw.label = "DETAIL" /\ gw.outcome = "failed") => gw.pushed = "fallback"

\* the handler of the followed request takes its response as blocked or
\* suspicious: it goes to the refetch through fetchWithGot (after the
\* backoff sleep when the status is a blocked one)
GwClassifiedBlocked == gw.pc \in {"sleep", "refetch"} \/ Did("refetch")

\* C12 (as claimed): the handlers of part_000 and part_001 classify a
\* response as blocked exactly when its status is 403, 429 or 503 or its body
\* is under the length threshold; a 503 response is treated as blocked.
C12_BlockedIncludes503 ==
    (variant # "main" /\ GwHandled) =>
        ((gw.resp.status \in {403, 429, 503} \/ gw.resp.short)
            <=> GwClassifiedBlocked)

\* C12 (amended): the handlers of part_000 and part_001 classify a response
\* as blocked exactly when its status is 403 or 429 or its body is under the
\* length threshold; a 503 response with a full-length body is handled as a
\* normal page.
C12_BlockedIs403Or429OrShort ==
    (variant # "main" /\ GwHandled) =>
        ((gw.resp.status \in {403, 429} \/ gw.resp.short)
            <=> GwClassifiedBlocked)

\* C12 witness: a 503 response with a full-length body has gone straight to
\* the extraction, with no refetch
C12_Status503Extracted ==
    /\ variant # "main" /\ gw.pc = "done" /\ gw.outcome = "ok"
    /\ gw.resp.status = 503 /\ ~gw.resp.short /\ gw.steps = <<>>

\* C13: a handler called with a blocked status or a short body (whatever
\* its status) has, when it ends, slept the backoff, then retired the
\* session, then refetched once, in this order.
C13_BackoffRetireRefetch ==
    (variant # "main" /\ GwEnded
        /\ (isBlockedStatus(gw.resp.status) \/ gw.resp.short)) =>
        gw.steps = <<"sleep", "markBad", "retire", "refetch">>

\* C14: the refetch that follows session.retire() is made with neither the
\* user-agent profile nor the egress endpoint of the retired session.
C14_RefetchFreshIdentity ==
    (gw.retired /\ Did("refetch")) =>
        /\ gw.fetchUa # Profile(gw.session)
        /\ gw.fetchProxy # Egress(gw.session)

\* C15: a handler (listing or detail) whose refetch is answered with a
\* blocked status ends with an error, so that the request is retried or has
\* failed; it never ends successfully; and a request is attempted at most
\* 1 + maxRequestRetries times.
C15_BlockedRefetchFails ==
    /\ gw.retry + 1 <= 1 + maxRequestRetries
    /\ (GwEnded /\ Did("refetch") /\ isBlockedStatus(gw.status)) =>
           gw.outcome \in {"retry", "failed"}

\* C16: the backoff before jitter of an attempt is at least the backoff of
\* the attempt before it and never above its cap, 5000 ms for a listing page
\* and 6000 ms for a detail page.
C16_BackoffMonotoneCapped ==
    /\ gw.backoff <= (IF gw.label = "LIST" THEN 5000 ELSE 6000)
    /\ (gw.prevBackoff > 0 /\ gw.backoff > 0) => gw.backoff >= gw.prevBackoff

\* C16 witness: a detail page blocked on its fourth and fifth attempt: the
\* backoff grows from 5600 ms to the cap
C16_BackoffReachesCap ==
    /\ gw.label = "DETAIL" /\ gw.retry = 4
    /\ gw.prevBackoff = 5600 /\ gw.backoff = 6000 /\ Did("sleep")

\* listing pages of full length and with a status that is not blocked on
\* which no strategy finds a job
NoDataPages ==
    {[Blank EXCEPT !.cursor = c, !.build = b, !.htmlNext = n] :
        c \in 0..SitePages, b \in BOOLEAN, n \in BOOLEAN} \cap GoodListPages
\* the request r is over in this step, and nothing came of it: it is neither
\* retried nor failed, and the queue has accepted no new URL
Skipped(r) ==
    /\ handledCount' = handledCount + 1
    /\ \A x \in pending' : x.url # r.url
    /\ \A h \in running' : h.req.url # r.url
    /\ r.url \notin failedRequests'
    /\ seenKeys' = seenKeys
    /\ pending' \subseteq pending
\* handler h of part_001 awaits the data API for the page of r, nothing
\* enqueued so far
AwaitsApi(r) ==
    /\ \E h \in running' : h.req = r /\ h.pc = "api" /\ h.found = 0 /\ h.html = 0
    /\ seenKeys' = seenKeys
    /\ pending' \subseteq pending

\* C17: a listing handler whose page gives no job to any strategy returns
\* without an error: its request is finished, not retried and not failed,
\* and nothing is enqueued from the page, neither a detail page nor a next
\* listing page.  (Every step in which a listing handler starts, or has its
\* refetch or the data API answer, either has this effect or is a step on
\* no page of NoDataPages.)
C17_NoDataSkipsPage ==
    [][/\ \A r \in pending \ pending' :
             r.label = "LIST" =>
                 \/ Skipped(r)
                 \/ AwaitsApi(r)
                 \/ \A page \in NoDataPages :
                        ~(\/ MainListStart(r, page)
                          \/ JsonListStart(r, page)
                          \/ ApiListStart(r, page))
       /\ \A h \in running \ running' :
             (h.req.label = "LIST" /\ h.pc = "refetch") =>
                 \/ Skipped(h.req)
                 \/ AwaitsApi(h.req)
                 \/ \A page \in NoDataPages :
                        ~(\/ JsonListRefetched(h, page)
                          \/ ApiListRefetched(h, page))
       /\ \A h \in running \ running' :
             (h.pc = "api" /\ h.found = 0 /\ h.html = 0) =>
                 \/ Skipped(h.req)
                 \/ \A api \in ApiResults :
                        ~(ApiListApiReturned(h, api)
                             /\ fetchNextJsApi(api, 0).jobs = 0)
      ]_vars

\* C17 witness: the first listing handler of the run has returned from a
\* page within the ceiling, with capacity left and no bad response, and the
\* queue has accepted nothing: its page had no job
C17_FirstPageHadNoJob ==
    /\ handledCount = 1 /\ pagesProcessed = 1 /\ running = {}
    /\ faults = MaxFaults
    /\ seenKeys = {ListUrl(q, 1) : q \in Seeds}
    /\ Cardinality(pending) = NumSeeds - 1

\* handler h throws in this step: its request is retried, or has failed
Throws(h) ==
    /\ h \in running /\ h \notin running'
    /\ \/ [h.req EXCEPT !.retryCount = @ + 1] \in pending'
       \/ h.req.url \in failedRequests' \ failedRequests

\* C18: a listing handler that ends with the Blocked error has enqueued
\* nothing, neither a detail page nor the next listing page, and the step in
\* which it throws leaves the counters of admitted and persisted jobs as they
\* are.
C18_BlockedListEnqueuesNothing ==
    [][\A h \in running :
          (h.req.label = "LIST" /\ Throws(h)) =>
              /\ h.pc = "refetch" /\ h.n = 0 /\ h.next = 0
              /\ seenKeys' = seenKeys
              /\ \A x \in pending' : x \in pending \/ x.url = h.req.url
              /\ enqueuedDetails' = enqueuedDetails
              /\ jobsProcessed' = jobsProcessed
              /\ savedJobs' = savedJobs
              /\ dataset' = dataset
      ]_vars

\* C18 witness: a listing page is back in the queue after its handler threw,
\* and the page it would have led to is unknown to the queue
C18_BlockedListRetried ==
    \E x \in pending :
        /\ x.label = "LIST" /\ x.retryCount > 0
        /\ \A p \in 1..SitePages : p > x.url.p => ListUrl(x.url.q, p) \notin seenKeys

\* C19: a run whose queue has drained with fewer records than the target has
\* ended as finished, with the shortfall warning logged; requests that failed
\* for blocked fetches never make the run end as failed.
C19_ShortfallIsSuccess ==
    /\ runState \in {"running", "finished"}
    /\ runState = "finished" => (shortfall <=> savedJobs < maxJobs)

\* C19 witness: the run has finished below its target after a request failed
\* on every attempt
C19_FinishedDespiteFailure ==
    /\ runState = "finished" /\ shortfall /\ savedJobs < maxJobs
    /\ failedRequests # {}

\* requests the pool has taken from the queue: handled, failed or in a handler
Issued == handledCount + Cardinality(running)

\* C20 (as stated): every run reaches its finished state with the queue empty,
\* and the requests issued never exceed min(10 * maxJobs, 5000).
C20_TerminatesWithinCap ==
    /\ <>(runState = "finished" /\ pending = {})
    /\ [](Issued <= maxRequestsPerCrawl)

\* C20 (amended): every run reaches its finished state, and the requests
\* issued never exceed min(10 * maxJobs, 5000) by more than the handlers that
\* were started before the cap was reached (maxConcurrency - 1).
C20_TerminatesWithinSoftCap ==
    /\ <>(runState = "finished")
    /\ [](Issued <= maxRequestsPerCrawl + NumWorkers - 1)

\* C20 witness: the run has finished with more requests handled than the cap
\* and a request left in the queue
C20_FinishedOverCap ==
    /\ runState = "finished"
    /\ handledCount > maxRequestsPerCrawl
    /\ pending # {}

\* C21: the next listing URL composed from a cursor token is the current URL
\* with only the cursor parameter replaced by the token: every other query
\* parameter keeps its value.
C21_OnlyCursorReplaced ==
    nav.next # NoUrl =>
        /\ nav.next["cursor"] = nav.token
        /\ \A k \in QueryParams \ {"cursor"} : nav.next[k] = nav.current[k]

\* a listing handler of main.js that starts now returns at its first guard
\* (target met or crawler terminated), before the page-ceiling guard
TargetStops == variant = "main" /\ (jobsProcessed >= maxJobs \/ crawlerTerminated)

\* C22: the page ceiling applies per search: a listing handler that starts on
\* page p of its search, p <= maxPages, is not stopped by the page-ceiling
\* guard, however many pages the other searches have processed.
C22_CeilingPerSearch ==
    [][\A r \in pending \ pending' :
          (/\ r.label = "LIST"
           /\ pagesProcessed' = pagesProcessed + 1
           /\ r.url.p <= maxPages
           /\ ~TargetStops)
          => pagesProcessed' <= maxPages]_vars

\* listing tasks of search q that are pending or in a handler
ListingsOf(q) ==
    Cardinality({x \in pending : x.label = "LIST" /\ x.url.q = q})
    + Cardinality({h \in running : h.req.label = "LIST" /\ h.req.url.q = q})
\* the requests a step adds to the queue
NewListings == {x \in pending' \ pending : x.label = "LIST" /\ x.url \notin seenKeys}
NewDetails == {x \in pending' \ pending : x.label = "DETAIL" /\ x.url \notin seenKeys}

C24_ExtractionIsFunction ==
    \A i, j \in 1..Len(casc.runs) :
        /\ casc.runs[i].found = casc.runs[j].found
        /\ casc.runs[i].src = casc.runs[j].src
        /\ casc.runs[i].next = casc.runs[j].next

DetailsEnqueued == {u \in seenKeys : u.j > 0}

\* C26: whenever no handler is running, jobsProcessed (main.js) is the number
\* of detail tasks that listing handlers have enqueued so far.
C26_JobsProcessedCountsEnqueued ==
    (variant = "main" /\ running = {})
        => jobsProcessed = Cardinality(DetailsEnqueued)

\* C27: against a site where every listing page yields at least one job and
\* the locator of the next page, with no fetch blocked and the page ceiling
\* out of reach, the run does not end with fewer records than its target.
C27_NoEarlyShortfall ==
    runState = "finished" => savedJobs >= maxJobs

\* C28: a listing page takes one unit of the page budget: the handler of a
\* listing request that is attempted again (retryCount > 0) does not
\* increment pagesProcessed a second time.
C28_RetryCountsNoPage ==
    [][\A r \in pending \ pending' :
          (r.label = "LIST" /\ r.retryCount > 0)
              => pagesProcessed' = pagesProcessed]_vars

\* C29: on a listing page reached through a cursor (page k > 1), the cursor
\* that part_001 resolves, from __NEXT_DATA__ or from the data API, is the
\* cursor of page k + 1.
C29_CursorAdvances ==
    \A i \in 1..Len(casc.runs) :
        (variant = "api" /\ casc.p > 1 /\ casc.runs[i].nextSrc = "cursor")
            => casc.runs[i].next = casc.p + 1

\* C30: the crawler is created with 1 <= minConcurrency <= maxConcurrency and
\* with maxConcurrency within the variant's cap, for every concurrency input
\* of at least 1 (and for no input).
C30_ConcurrencyBounds ==
    conc.created =>
        /\ 1 <= conc.minConcurrency
        /\ conc.minConcurrency <= conc.maxConcurrency
        /\ conc.maxConcurrency <= HardCap

====
